---- MODULE Spec2Model ----
(***************************************************************************)
(* py4dlib.objects: the object-manager tree iterator (ObjectIterator), the *)
(* path-indexed snapshot (ObjectHierarchy.__init__) and its path queries   *)
(* (ObjectHierarchy.get).                                                  *)
(*                                                                         *)
(* Objects are numbered 1..n, None is 0.  A string is a sequence of        *)
(* one-character strings, so that split, join, replace and regular         *)
(* expression matching are computed character by character.                *)
(***************************************************************************)
EXTENDS Integers, Sequences, FiniteSets, TLC

VARIABLES
    up,         \* the document: up[op] is op.GetUp() (None for a top-level object)
    name,       \* name[op] is op.GetName()
    typ,        \* typ[op] is op.GetType()
    iter,       \* the ObjectIterator instance (NoIter before construction)
    args,       \* the arguments the iterator was constructed with
    yielded,    \* the (op, lvl) pairs next() has returned so far
    stops,      \* how many times next() has raised StopIteration
    hier,       \* the ObjectHierarchy instance (NoHier before construction)
    built,      \* the arguments the ObjectHierarchy was constructed with
    query,      \* the last call of ObjectHierarchy.get and its outcome
    mpath,      \* path expression under test (pattern-matching specification)
    mkey,       \* index key under test
    mres,       \* what get computes for mpath against mkey
    active,     \* the objects whose BIT_ACTIVE is set
    call        \* the last call of a module-level traversal function and its outcome

vars == <<up, name, typ, iter, args, yielded, stops, hier, built, query, mpath, mkey, mres,
          active, call>>

(***************************************************************************)
(* Bounds                                                                  *)
(***************************************************************************)
MaxNodes == 4       \* objects in the document
MaxStops == 2       \* calls of next() made after the iterator is exhausted
MaxStopList == 2    \* length of a list passed as stopobj
MaxPathLen == 3     \* length of an enumerated path expression
MaxKeyLen == 2      \* length of an enumerated index key
MaxSegs == 4        \* segments of an enumerated '..' path

None == 0
NoIter == [tag |-> "none"]
NoHier == [tag |-> "none"]
NoQuery == [tag |-> "none"]

(***************************************************************************)
(* Sequence helpers                                                        *)
(***************************************************************************)
Range(s) == {s[i] : i \in 1..Len(s)}

Reverse(s) == [i \in 1..Len(s) |-> s[Len(s) + 1 - i]]

Min(S) == CHOOSE x \in S : \A y \in S : x <= y

SeqsUpTo(S, n) == UNION {[1..k -> S] : k \in 0..n}

(***************************************************************************)
(* The object manager tree (c4d.BaseObject navigation)                     *)
(***************************************************************************)
Objs == DOMAIN up

GetUp(op) == up[op]

Children(p) == {c \in Objs : up[c] = p}

GetDown(op) == IF Children(op) = {} THEN None ELSE Min(Children(op))

LaterSiblings(op) == {s \in Objs : up[s] = up[op] /\ s > op}

GetNext(op) == IF LaterSiblings(op) = {} THEN None ELSE Min(LaterSiblings(op))

GetName(op) == name[op]

GetType(op) == typ[op]

GetFirstObject == IF Children(None) = {} THEN None ELSE Min(Children(None))

\* The ancestors of op, op included, in a parent function u.
RECURSIVE AncSelfIn(_, _)
AncSelfIn(u, op) == IF op = None THEN {} ELSE {op} \cup AncSelfIn(u, u[op])

\* All ordered forests of n objects: objects are numbered in link order, so
\* the parent of i is None, i-1 or an ancestor of i-1.
Forests(n) ==
    {u \in [1..n -> 0..n] :
        \A i \in 1..n : /\ u[i] < i
                        /\ (i > 1 => u[i] \in {None} \cup AncSelfIn(u, i - 1))}

(***************************************************************************)
(* ObjectIterator                                                          *)
(***************************************************************************)
\* objects.py 64-68: count startobj and its ancestors onto startlvl.
RECURSIVE StartLevel(_, _)
StartLevel(op, startlvl) ==
    IF op = None THEN startlvl ELSE StartLevel(GetUp(op), startlvl + 1)

\* (mutant: startobj is not put on the stop list)
InitStopObjsAlwaysEmpty(startobj, children_only) == <<>>

\* objects.py 70-75: the stop list before stopobj is added.
InitStopObjs(startobj, children_only) ==
    IF children_only THEN <<startobj>> ELSE <<>>

\* objects.py 76-79: stopobj is None, a list, or one object.
ExtendStopObjs(stopobjs, stopobj) ==
    IF stopobj.kind = "list" THEN stopobjs \o stopobj.objs
    ELSE IF stopobj.kind = "obj" THEN Append(stopobjs, stopobj.obj)
    ELSE stopobjs

ObjectIteratorInit(startobj, stopobj, children_only, startlvl) ==
    [tag          |-> "iter",
     curobj       |-> startobj,
     curlvl       |-> StartLevel(startobj, startlvl),
     childrenonly |-> children_only,
     stopobjs     |-> ExtendStopObjs(InitStopObjs(startobj, children_only), stopobj),
     init         |-> ~children_only]

InStop(op, stopobjs) == op \in Range(stopobjs)

\* (mutant: climbs one level at most instead of looping)
AscendOnce(op, lvl, stopobjs) ==
    IF GetNext(op) = None /\ GetUp(op) # None
    THEN IF InStop(op, stopobjs) \/ InStop(GetUp(op), stopobjs)
         THEN [op |-> op, lvl |-> lvl, stop |-> TRUE]
         ELSE [op |-> GetUp(op), lvl |-> lvl - 1, stop |-> FALSE]
    ELSE [op |-> op, lvl |-> lvl, stop |-> FALSE]

\* (mutant: the climb does not decrement the level)
RECURSIVE AscendKeepLevel(_, _, _)
AscendKeepLevel(op, lvl, stopobjs) ==
    IF GetNext(op) = None /\ GetUp(op) # None
    THEN IF InStop(op, stopobjs) \/ InStop(GetUp(op), stopobjs)
         THEN [op |-> op, lvl |-> lvl, stop |-> TRUE]
         ELSE AscendKeepLevel(GetUp(op), lvl, stopobjs)
    ELSE [op |-> op, lvl |-> lvl, stop |-> FALSE]

\* objects.py 105-110: climb while there is no next sibling; curlvl is
\* decremented on the instance before a later round may raise StopIteration.
RECURSIVE Ascend(_, _, _)
Ascend(op, lvl, stopobjs) ==
    IF GetNext(op) = None /\ GetUp(op) # None
    THEN IF InStop(op, stopobjs) \/ InStop(GetUp(op), stopobjs)
         THEN [op |-> op, lvl |-> lvl, stop |-> TRUE]
         ELSE Ascend(GetUp(op), lvl - 1, stopobjs)
    ELSE [op |-> op, lvl |-> lvl, stop |-> FALSE]

\* (mutant: the next sibling is not tested against the stop list)
SiblingStoppedNever(op, stopobjs) == FALSE

\* objects.py 112: the next sibling is on the stop list.
SiblingStopped(op, stopobjs) == InStop(GetNext(op), stopobjs)

Raise(it) == [it |-> it, stop |-> TRUE, op |-> None, lvl |-> 0]

Return(it) == [it |-> it, stop |-> FALSE, op |-> it.curobj, lvl |-> it.curlvl]

\* (mutant: the climb moves self.curobj as well as self.curlvl)
IterNextMovingCursor(it) ==
    LET op == it.curobj IN
    IF it.init THEN Return([it EXCEPT !.init = FALSE])
    ELSE IF op = None THEN Raise(it)
    ELSE IF GetDown(op) # None
    THEN IF InStop(GetNext(op), it.stopobjs) \/ InStop(GetDown(op), it.stopobjs)
         THEN Raise(it)
         ELSE Return([it EXCEPT !.curlvl = it.curlvl + 1, !.curobj = GetDown(op)])
    ELSE IF InStop(op, it.stopobjs) THEN Raise(it)
    ELSE LET a  == Ascend(op, it.curlvl, it.stopobjs)
             it2 == [it EXCEPT !.curlvl = a.lvl, !.curobj = a.op]
         IN  IF a.stop THEN Raise(it2)
             ELSE IF GetNext(a.op) # None
             THEN IF SiblingStopped(a.op, it.stopobjs) THEN Raise(it2)
                  ELSE Return([it2 EXCEPT !.curobj = GetNext(a.op)])
             ELSE Raise(it2)

\* objects.py 84-118: one call of next(); the new instance state and either
\* the pair returned or StopIteration.
IterNext(it) ==
    LET op == it.curobj IN
    IF it.init THEN Return([it EXCEPT !.init = FALSE])
    ELSE IF op = None THEN Raise(it)
    ELSE IF GetDown(op) # None
    THEN IF InStop(GetNext(op), it.stopobjs) \/ InStop(GetDown(op), it.stopobjs)
         THEN Raise(it)
         ELSE Return([it EXCEPT !.curlvl = it.curlvl + 1, !.curobj = GetDown(op)])
    ELSE IF InStop(op, it.stopobjs) THEN Raise(it)
    ELSE LET a  == Ascend(op, it.curlvl, it.stopobjs)
             it2 == [it EXCEPT !.curlvl = a.lvl]
         IN  IF a.stop THEN Raise(it2)
             ELSE IF GetNext(a.op) # None
             THEN IF SiblingStopped(a.op, it.stopobjs) THEN Raise(it2)
                  ELSE Return([it2 EXCEPT !.curobj = GetNext(a.op)])
             ELSE Raise(it2)

(***************************************************************************)
(* Traversal specification: construct one ObjectIterator and advance it    *)
(***************************************************************************)
NoStop == [kind |-> "none", obj |-> None, objs |-> <<>>]

StopObj(d) == [kind |-> "obj", obj |-> d, objs |-> <<>>]

StopList(l) == [kind |-> "list", obj |-> None, objs |-> l]

\* Lists of distinct objects in increasing order: only membership is read.
ObjLists(S, n) ==
    {l \in SeqsUpTo(S, n) : \A i \in 1..Len(l) : \A j \in 1..Len(l) : i < j => l[i] < l[j]}

StopArgs ==
    {NoStop} \cup {StopObj(d) : d \in Objs} \cup {StopList(l) : l \in ObjLists(Objs, MaxStopList)}

NoArgs == [startobj |-> None, stopobj |-> NoStop, children_only |-> TRUE, startlvl |-> -1]

DefaultNames(n) == [i \in 1..n |-> <<"a">>]

DefaultTypes(n) == [i \in 1..n |-> 1]

NoFilter == -1

NoBuilt == [rootobj |-> None, filtertype |-> NoFilter]

IdleIter == /\ iter = NoIter
            /\ args = NoArgs
            /\ yielded = <<>>
            /\ stops = 0

IdleHier == /\ hier = NoHier
            /\ built = NoBuilt
            /\ query = NoQuery

IdleMatch == /\ mpath = <<>>
             /\ mkey = <<>>
             /\ mres = [tag |-> "none"]

NoCall == [fn |-> "none"]

IdleWalk == /\ active = {}
            /\ call = NoCall

InitIter ==
    /\ \E n \in 0..MaxNodes :
          /\ up \in Forests(n)
          /\ name = DefaultNames(n)
          /\ typ = DefaultTypes(n)
    /\ IdleIter
    /\ IdleHier
    /\ IdleMatch
    /\ IdleWalk

\* ObjectIterator(startobj, stopobj, children_only, startlvl)
Construct ==
    /\ iter = NoIter
    /\ \E startobj \in Objs \cup {None}, stopobj \in StopArgs,
          children_only \in BOOLEAN, startlvl \in {-1, 0} :
          /\ iter' = ObjectIteratorInit(startobj, stopobj, children_only, startlvl)
          /\ args' = [startobj |-> startobj, stopobj |-> stopobj,
                      children_only |-> children_only, startlvl |-> startlvl]
    /\ UNCHANGED <<up, name, typ, yielded, stops, hier, built, query, mpath, mkey, mres, active, call>>

\* iterator.next()
Advance ==
    /\ iter # NoIter
    /\ stops < MaxStops
    /\ LET r == IterNext(iter) IN
          /\ iter' = r.it
          /\ IF r.stop
             THEN /\ stops' = stops + 1
                  /\ UNCHANGED yielded
             ELSE /\ yielded' = Append(yielded, <<r.op, r.lvl>>)
                  /\ UNCHANGED stops
    /\ UNCHANGED <<up, name, typ, args, hier, built, query, mpath, mkey, mres, active, call>>

NextIter == Construct \/ Advance

SpecIter == InitIter /\ [][NextIter]_vars

(***************************************************************************)
(* Reference notions for the traversal claims                              *)
(***************************************************************************)
RECURSIVE SortedSeq(_)
SortedSeq(S) == IF S = {} THEN <<>> ELSE <<Min(S)>> \o SortedSeq(S \ {Min(S)})

ChildSeq(p) == SortedSeq(Children(p))

\* Pre-order of the subtrees of a sequence of siblings.
RECURSIVE PreOrder(_)
PreOrder(ops) ==
    IF ops = <<>> THEN <<>>
    ELSE <<Head(ops)>> \o PreOrder(ChildSeq(Head(ops))) \o PreOrder(Tail(ops))

SubtreePre(op) == <<op>> \o PreOrder(ChildSeq(op))

DocPre == PreOrder(ChildSeq(None))

ProperDescendants(op) == Range(PreOrder(ChildSeq(op)))

Pos(s, x) == CHOOSE i \in 1..Len(s) : s[i] = x

SuffixFrom(s, x) == SubSeq(s, Pos(s, x), Len(s))

IsPrefix(s, t) == Len(s) <= Len(t) /\ SubSeq(t, 1, Len(s)) = s

YieldedObjs == [i \in 1..Len(yielded) |-> yielded[i][1]]

AncSelf(op) == AncSelfIn(up, op)

FullNoStop ==
    /\ iter # NoIter
    /\ ~args.children_only
    /\ args.stopobj = NoStop
    /\ args.startobj # None

ChildrenOnlyNoStop ==
    /\ iter # NoIter
    /\ args.children_only
    /\ args.stopobj = NoStop
    /\ args.startobj # None

\* C1 as stated: in FullSubtree mode without stop nodes the exhausted
\* iterator has yielded exactly the start node and its descendants in
\* pre-order, whether or not the start node has following siblings.
C1_YieldsOnlySubtree ==
    (FullNoStop /\ stops >= 1) => YieldedObjs = SubtreePre(args.startobj)

\* C1 amended: in FullSubtree mode without stop nodes the iterator yields
\* the start node first and then every object that follows it in the
\* pre-order of the whole document, each exactly once and in pre-order;
\* this is the start node's own subtree exactly when neither the start node
\* nor any of its ancestors has a following sibling.
C1_FullModeRunsToEndOfDocument ==
    FullNoStop =>
        /\ IsPrefix(YieldedObjs, SuffixFrom(DocPre, args.startobj))
        /\ stops >= 1 => YieldedObjs = SuffixFrom(DocPre, args.startobj)
        /\ (stops >= 1 /\ \A a \in AncSelf(args.startobj) : GetNext(a) = None)
              => YieldedObjs = SubtreePre(args.startobj)

C1_Witness ==
    /\ FullNoStop
    /\ stops >= 1
    /\ GetDown(args.startobj) # None
    /\ GetNext(args.startobj) # None
    /\ GetUp(args.startobj) # None
    /\ Len(yielded) >= 3

\* C2: in ChildrenOnly mode without an explicit stop node the iterator
\* yields exactly the proper descendants of the start node, each once and
\* in pre-order, and never the start node or an object outside its subtree.
C2_ChildrenOnlyYieldsProperDescendants ==
    ChildrenOnlyNoStop =>
        /\ IsPrefix(YieldedObjs, Tail(SubtreePre(args.startobj)))
        /\ stops >= 1 => YieldedObjs = Tail(SubtreePre(args.startobj))
        /\ \A i \in 1..Len(yielded) :
              yielded[i][1] \in ProperDescendants(args.startobj)

C2_Witness ==
    /\ ChildrenOnlyNoStop
    /\ stops >= 1
    /\ GetNext(args.startobj) # None
    /\ Len(yielded) >= 2
    /\ GetUp(yielded[Len(yielded)][1]) # args.startobj

ExplicitStops ==
    IF args.stopobj.kind = "obj" THEN {args.stopobj.obj}
    ELSE IF args.stopobj.kind = "list" THEN Range(args.stopobj.objs)
    ELSE {}

\* C3: an explicit stop node D that is a descendant of the start node is
\* never yielded, and neither is any object that follows D in pre-order.
C3_StopBoundaryContainment ==
    (iter # NoIter /\ args.startobj # None) =>
        \A d \in ExplicitStops \cap ProperDescendants(args.startobj) :
            \A i \in 1..Len(yielded) :
                Pos(DocPre, yielded[i][1]) < Pos(DocPre, d)

C3_Witness ==
    /\ iter # NoIter
    /\ args.startobj # None
    /\ ~args.children_only
    /\ args.stopobj.kind = "list"
    /\ stops >= 1
    /\ Len(yielded) >= 2
    /\ \E d \in ExplicitStops \cap ProperDescendants(args.startobj) :
          /\ d = GetNext(yielded[Len(yielded)][1])
          /\ GetDown(d) # None

(***************************************************************************)
(* Strings                                                                 *)
(***************************************************************************)
RECURSIVE Join(_, _)
Join(list, sep) ==
    IF list = <<>> THEN <<>>
    ELSE IF Len(list) = 1 THEN list[1]
    ELSE list[1] \o sep \o Join(Tail(list), sep)

\* str.split(sep) for a one-character separator
RECURSIVE Split(_, _)
Split(s, sep) ==
    IF \A i \in 1..Len(s) : s[i] # sep THEN <<s>>
    ELSE LET i == Min({j \in 1..Len(s) : s[j] = sep})
         IN  <<SubSeq(s, 1, i - 1)>> \o Split(SubSeq(s, i + 1, Len(s)), sep)

\* str.replace(ch, rep) for a one-character ch
RECURSIVE Replace(_, _, _)
Replace(s, ch, rep) ==
    IF s = <<>> THEN <<>>
    ELSE (IF Head(s) = ch THEN rep ELSE <<Head(s)>>) \o Replace(Tail(s), ch, rep)

\* str.strip()
RECURSIVE Strip(_)
Strip(s) ==
    IF s = <<>> THEN s
    ELSE IF Head(s) = " " THEN Strip(Tail(s))
    ELSE IF s[Len(s)] = " " THEN Strip(SubSeq(s, 1, Len(s) - 1))
    ELSE s

\* sub in s
Contains(s, sub) ==
    \E i \in 0..(Len(s) - Len(sub)) : SubSeq(s, i + 1, i + Len(sub)) = sub

(***************************************************************************)
(* ObjectHierarchy.__init__                                                *)
(***************************************************************************)
\* for op, lvl in ObjectIterator(...): every pair up to StopIteration
RECURSIVE Yields(_)
Yields(it) ==
    LET r == IterNext(it)
    IN  IF r.stop THEN <<>> ELSE <<<<r.op, r.lvl>>>> \o Yields(r.it)

\* objects.py 195-196
FilterPass(op, filtertype) ==
    filtertype = NoFilter \/ (filtertype # 0 /\ GetType(op) = filtertype)

\* objects.py 197-206: the names of op's ancestors, nearest first
RECURSIVE AncestorNames(_)
AncestorNames(op) ==
    IF GetUp(op) = None THEN <<>>
    ELSE <<GetName(GetUp(op))>> \o AncestorNames(GetUp(op))

\* (mutant: the collected names are not reversed)
ParentPathUnreversed(op) ==
    LET plist == AncestorNames(op)
    IN  Join(IF Len(plist) = 0 THEN <<GetName(op)>> ELSE plist, <<"/">>)

\* objects.py 197-210
ParentPath(op) ==
    LET plist == AncestorNames(op)
    IN  Join(Reverse(IF Len(plist) = 0 THEN <<GetName(op)>> ELSE plist), <<"/">>)

EmptyDict == [k \in {} |-> <<>>]

\* (mutant: the entry is overwritten instead of appended to)
IndexOverwrite(hierarchy, parent_path, op) ==
    IF parent_path \notin DOMAIN hierarchy
    THEN hierarchy @@ (parent_path :> <<op>>)
    ELSE [hierarchy EXCEPT ![parent_path] = <<op>>]

\* objects.py 211-213
IndexAppend(hierarchy, parent_path, op) ==
    IF parent_path \notin DOMAIN hierarchy
    THEN hierarchy @@ (parent_path :> <<op>>)
    ELSE [hierarchy EXCEPT ![parent_path] = Append(@, op)]

\* objects.py 194-215: the loop body folded over the yielded pairs.  A pair
\* whose object is None makes op.GetName() / op.GetType() raise.
RECURSIVE BuildLoop(_, _, _)
BuildLoop(pairs, filtertype, h) ==
    IF pairs = <<>> THEN h
    ELSE LET op  == Head(pairs)[1]
             lvl == Head(pairs)[2]
         IN  IF op = None /\ (filtertype = NoFilter \/ filtertype # 0)
             THEN [h EXCEPT !.tag = "AttributeError"]
             ELSE BuildLoop(Tail(pairs), filtertype,
                     [h EXCEPT !.entries = IF FilterPass(op, filtertype)
                                           THEN IndexAppend(@, ParentPath(op), op)
                                           ELSE @,
                               !.maxlvl = IF lvl > @ THEN lvl ELSE @])

\* (mutant: an explicit root is traversed with children_only = False)
HierChildrenOnlyNever(rootobj) == FALSE

\* objects.py 185-189
HierChildrenOnly(rootobj) == rootobj # None

\* objects.py 183-217
ObjectHierarchyInit(rootobj, filtertype) ==
    LET root == IF rootobj = None THEN GetFirstObject ELSE rootobj
        it   == ObjectIteratorInit(root, NoStop, HierChildrenOnly(rootobj), -1)
    IN  BuildLoop(Yields(it), filtertype,
                  [tag |-> "hier", root |-> root, maxlvl |-> -1, entries |-> EmptyDict])

\* filtertype: None or a c4d type id; the objects have type 1 or 2, and
\* filtering for 2 mirrors filtering for 1.
FilterArgs == {NoFilter, 1}

\* ObjectHierarchy(rootobj, filtertype)
Build ==
    /\ hier = NoHier
    /\ \E rootobj \in Objs \cup {None}, filtertype \in FilterArgs :
          /\ hier' = ObjectHierarchyInit(rootobj, filtertype)
          /\ built' = [rootobj |-> rootobj, filtertype |-> filtertype]
    /\ UNCHANGED <<up, name, typ, iter, args, yielded, stops, query, mpath, mkey, mres, active, call>>

NameSet == {<<"R">>, <<"A">>}

TypeSet == {1, 2}

InitHier ==
    /\ \E n \in 0..MaxNodes :
          /\ up \in Forests(n)
          /\ name \in [1..n -> NameSet]
          /\ typ \in [1..n -> TypeSet]
    /\ IdleIter
    /\ IdleHier
    /\ IdleMatch
    /\ IdleWalk

NextHier == Build

SpecHier == InitHier /\ [][NextHier]_vars

(***************************************************************************)
(* Reference notions for the index claims                                  *)
(***************************************************************************)
Built == hier # NoHier /\ hier.tag = "hier"

\* The objects the traversal driving the build yields, in order.
DrivenObjs ==
    LET ys == Yields(ObjectIteratorInit(hier.root, NoStop, built.rootobj # None, -1))
    IN  [i \in 1..Len(ys) |-> ys[i][1]]

\* Every place <<key, i>> of a node list of the index.
Slots(entries) ==
    UNION {{<<k, i>> : i \in 1..Len(entries[k])} : k \in DOMAIN entries}

InEncounterOrder(entries, order) ==
    \A k \in DOMAIN entries : \A i \in 1..Len(entries[k]) : \A j \in 1..Len(entries[k]) :
        i < j => Pos(order, entries[k][i]) < Pos(order, entries[k][j])

PassingObjs == SelectSeq(DrivenObjs, LAMBDA op : FilterPass(op, built.filtertype))

\* C4 as stated: with or without a filter type every yielded object is in
\* exactly one node list exactly once, the lists are in encounter order and
\* the lengths add up to the number of objects the unfiltered traversal yields.
C4_EveryYieldedObjectIndexed ==
    Built =>
        LET objs  == DrivenObjs
            slots == Slots(hier.entries)
        IN  /\ \A op \in Range(objs) :
                  Cardinality({sl \in slots : hier.entries[sl[1]][sl[2]] = op}) = 1
            /\ InEncounterOrder(hier.entries, objs)
            /\ Cardinality(slots) = Len(objs)

\* C4 amended: the index holds exactly the yielded objects that pass the
\* filter (all of them when no filter type is given), each in exactly one
\* node list and exactly once, each list in encounter order; the lengths
\* add up to the number of yielded objects that pass the filter.
C4_EveryPassingObjectIndexed ==
    Built =>
        LET objs    == DrivenObjs
            passing == SelectSeq(objs, LAMBDA op : FilterPass(op, built.filtertype))
            slots   == Slots(hier.entries)
        IN  /\ \A op \in Range(objs) :
                  Cardinality({sl \in slots : hier.entries[sl[1]][sl[2]] = op}) =
                      IF FilterPass(op, built.filtertype) THEN 1 ELSE 0
            /\ \A sl \in slots : hier.entries[sl[1]][sl[2]] \in Range(passing)
            /\ InEncounterOrder(hier.entries, objs)
            /\ Cardinality(slots) = Len(passing)
            /\ built.filtertype = NoFilter => Cardinality(slots) = Len(objs)

C4_Witness ==
    /\ Built
    /\ built.filtertype # NoFilter
    /\ Len(PassingObjs) >= 2
    /\ Len(PassingObjs) < Len(DrivenObjs)
    /\ \E k \in DOMAIN hier.entries : Len(hier.entries[k]) >= 2

\* The ancestors of op from its top-level ancestor down to its parent.
RECURSIVE AncestorsTopDown(_)
AncestorsTopDown(op) ==
    IF up[op] = None THEN <<>> ELSE Append(AncestorsTopDown(up[op]), up[op])

NamesOf(ops) == [i \in 1..Len(ops) |-> name[ops[i]]]

\* The key C5 states: ancestors strictly below the snapshot root.
KeyBelowRoot(op, root) ==
    LET below == SelectSeq(AncestorsTopDown(op),
                           LAMBDA a : a \in ProperDescendants(root))
    IN  IF below = <<>> THEN name[op] ELSE Join(NamesOf(below), <<"/">>)

\* The key the code computes: every ancestor, the snapshot root and the
\* root's own ancestors included.
KeyFromTop(op) ==
    IF up[op] = None THEN name[op] ELSE Join(NamesOf(AncestorsTopDown(op)), <<"/">>)

\* C5 as stated: a node is keyed by the names of its ancestors from the
\* snapshot root (exclusive) down to its parent, and by its own name when
\* it has no ancestor under the snapshot root.
C5_KeyExcludesSnapshotRoot ==
    (Built /\ built.rootobj # None) =>
        \A sl \in Slots(hier.entries) :
            sl[1] = KeyBelowRoot(hier.entries[sl[1]][sl[2]], hier.root)

\* C5 amended: a node is keyed by the slash-joined names of all its
\* ancestors, from its top-level ancestor down to its parent in that order,
\* the snapshot root and the root's own ancestors included; only an object
\* without a parent is keyed by its own name.
C5_KeyIsAllAncestorNames ==
    Built =>
        \A sl \in Slots(hier.entries) :
            sl[1] = KeyFromTop(hier.entries[sl[1]][sl[2]])

C5_Witness ==
    /\ Built
    /\ built.rootobj # None
    /\ GetUp(hier.root) # None
    /\ \E k \in DOMAIN hier.entries :
          /\ k = <<"R", "/", "A", "/", "A">>
          /\ hier.entries[k] # <<>>

(***************************************************************************)
(* re.match(pat, key) for the pattern syntax the path expressions use:     *)
(* literals, '.', '^', '$', the repeats '*', '+', '?' (each optionally     *)
(* followed by the non-greedy mark '?') and alternation '|'.  Groups,      *)
(* classes and escapes are outside the alphabets used here.                *)
(***************************************************************************)
IsRepeat(c) == c \in {"*", "+", "?"}

Atom(c) ==
    [k |-> IF c = "." THEN "any" ELSE IF c = "^" THEN "bol"
           ELSE IF c = "$" THEN "eol" ELSE "lit",
     c |-> c, q |-> "1"]

\* sre_parse of one branch: the items read so far, or the error raised
\* ("nothing to repeat", "multiple repeat").
RECURSIVE ParseItems(_, _, _)
ParseItems(s, i, acc) ==
    IF i > Len(s) THEN [ok |-> TRUE, items |-> acc]
    ELSE IF IsRepeat(s[i])
    THEN IF acc = <<>> \/ acc[Len(acc)].k \in {"bol", "eol"} \/ acc[Len(acc)].q # "1"
         THEN [ok |-> FALSE, items |-> <<>>]
         ELSE ParseItems(s,
                         IF i < Len(s) /\ s[i + 1] = "?" THEN i + 2 ELSE i + 1,
                         [acc EXCEPT ![Len(acc)].q = s[i]])
    ELSE ParseItems(s, i + 1, Append(acc, Atom(s[i])))

\* The positions reached from the positions P by matching the atom once.
Once(item, P, key) ==
    IF item.k = "lit" THEN {p + 1 : p \in {q \in P : q < Len(key) /\ key[q + 1] = item.c}}
    ELSE IF item.k = "any" THEN {p + 1 : p \in {q \in P : q < Len(key) /\ key[q + 1] # "\n"}}
    ELSE IF item.k = "bol" THEN P \cap {0}
    ELSE P \cap ({Len(key)} \cup
                 IF key # <<>> /\ key[Len(key)] = "\n" THEN {Len(key) - 1} ELSE {})

RECURSIVE Closure(_, _, _)
Closure(item, P, key) ==
    LET Q == P \cup Once(item, P, key)
    IN  IF Q = P THEN P ELSE Closure(item, Q, key)

Step(item, P, key) ==
    IF item.q = "1" THEN Once(item, P, key)
    ELSE IF item.q = "?" THEN P \cup Once(item, P, key)
    ELSE IF item.q = "*" THEN Closure(item, P, key)
    ELSE Closure(item, Once(item, P, key), key)

\* The end positions of the matches of a branch that start at position 0.
RECURSIVE Ends(_, _, _, _)
Ends(items, i, P, key) ==
    IF i > Len(items) THEN P ELSE Ends(items, i + 1, Step(items[i], P, key), key)

Branches(pat) == Split(pat, "|")

ReValid(pat) ==
    \A b \in Range(Branches(pat)) : ParseItems(b, 1, <<>>).ok

\* The end positions of all matches of pat in key that start at position 0.
ReEnds(pat, key) ==
    UNION {Ends(ParseItems(b, 1, <<>>).items, 1, {0}, key) : b \in Range(Branches(pat))}

\* re.match(pat, key) is not None
ReMatch(pat, key) == ReEnds(pat, key) # {}

(***************************************************************************)
(* ObjectHierarchy.get                                                     *)
(***************************************************************************)
\* objects.py 280-290: the loop over reversed(comps)
RECURSIVE ResolveLoop(_, _, _)
ResolveLoop(comps, skip, resolved_comps) ==
    IF comps = <<>> THEN resolved_comps
    ELSE IF Head(comps) = <<".", ".">> THEN ResolveLoop(Tail(comps), TRUE, resolved_comps)
    ELSE IF skip THEN ResolveLoop(Tail(comps), FALSE, resolved_comps)
    ELSE ResolveLoop(Tail(comps), FALSE, Append(resolved_comps, Head(comps)))

\* objects.py 278-291
ResolvePath(path) ==
    IF Contains(path, <<".", ".">>)
    THEN Join(Reverse(ResolveLoop(Reverse(Split(path, "/")), FALSE, <<>>)), <<"/">>)
    ELSE path

\* (mutant: '*' is left as it is)
WildcardToRegexKeepStar(path) == Replace(path, "?", <<".">>)

\* objects.py 297
WildcardToRegex(path) == Replace(Replace(path, "?", <<".">>), "*", <<".", "*", "?">>)

\* objects.py 292-297 (path is not empty)
PatternBody(path) ==
    IF path[1] = "!" THEN Tail(path) ELSE WildcardToRegex(path)

\* (mutant: the pattern is anchored at the start only)
AnchoredStartOnly(pat) == <<"^">> \o pat

\* objects.py 298
Anchored(pat) == <<"^">> \o pat \o <<"$">>

\* objects.py 299: the test a key passes to be selected
KeySelected(path, key) == ReMatch(Anchored(PatternBody(path)), key)

\* objects.py 305-307: the node lists of the keys, in the order of keys
RECURSIVE Collect(_, _)
Collect(entries, keys) ==
    IF keys = <<>> THEN <<>>
    ELSE entries[Head(keys)] \o Collect(entries, Tail(keys))

\* The orders in which a dictionary may hand out the keys in S.
KeyOrders(S) ==
    {o \in [1..Cardinality(S) -> S] : \A i, j \in 1..Cardinality(S) : i # j => o[i] # o[j]}

\* objects.py 274-310: the outcomes of get(path): the list returned, or the
\* exception raised (path[0] of an empty path; re.match of a pattern that
\* does not compile, called once there is a key to test).
GetOutcomes(entries, path0) ==
    LET path == ResolvePath(Strip(path0))
    IN  IF path = <<>> THEN {[tag |-> "IndexError", result |-> <<>>]}
        ELSE IF DOMAIN entries # {} /\ ~ReValid(Anchored(PatternBody(path)))
        THEN {[tag |-> "re.error", result |-> <<>>]}
        ELSE {[tag |-> "ok", result |-> Collect(entries, o)] :
                 o \in KeyOrders({k \in DOMAIN entries : KeySelected(path, k)})}

(***************************************************************************)
(* Path expressions and keys the queries are tried on                      *)
(***************************************************************************)
QueryChars == {"R", "A", "/", "*", "?", ".", "!", "|"}

ScenarioPaths ==
    {<<"R", "/", "*">>, <<"!", "^", "R", "/", "A", ".", "*", "$">>, <<"Z">>}

QueryPaths == SeqsUpTo(QueryChars, MaxPathLen) \cup ScenarioPaths

MatchChars == {"a", "/", "*", "?", ".", "|", "!"}

KeyChars == {"a", "b", "/"}

Segments == {<<"a">>, <<"b">>, <<".", ".">>}

SegPaths == {Join(l, <<"/">>) : l \in SeqsUpTo(Segments, MaxSegs) \ {<<>>}}

ExamplePaths ==
    {<<"a", "/", "b">>, <<"a", "/", "*">>, <<"a", "/", "?">>,
     <<"!", "^", "a", "/", ".", "*", "$">>, <<"!", "a", "|", "b">>,
     <<"a", ".", "b">>, <<"a", "+">>, <<" ", "a", "/", "b", " ">>,
     <<"a", "/", "b", "/", ".", ".", "/", "c">>,
     <<"a", "/", "b", "/", ".", ".", "/", ".", ".", "/", "c">>}

ExampleKeys ==
    {<<"a", "/", "b">>, <<"a", "/", "b", "c">>, <<"a", "/">>, <<"a", "x", "/", "b">>,
     <<"x", "a", "/", "b">>, <<"a", "x", "b">>, <<"a", "a">>, <<"a", "/", "c">>,
     <<"c">>, <<"a", "/", "\n">>}

MatchInputs ==
    (SeqsUpTo(MatchChars, MaxPathLen) \X SeqsUpTo(KeyChars, MaxKeyLen))
        \cup (ExamplePaths \X ExampleKeys)
        \cup (SegPaths \X {<<"a">>})

\* hierarchy.get(path); get only reads the instance, so one call per
\* behaviour shows every outcome.
Get ==
    /\ hier # NoHier
    /\ hier.tag = "hier"
    /\ query = NoQuery
    /\ \E path \in QueryPaths :
          \E o \in GetOutcomes(hier.entries, path) :
              query' = [tag |-> o.tag, path |-> path, result |-> o.result]
    /\ UNCHANGED <<up, name, typ, iter, args, yielded, stops, hier, built, mpath, mkey, mres, active, call>>

\* The document of the end-to-end scenario: R has the children A and B, and
\* A has the child A1.
Sc == [R |-> 1, A |-> 2, A1 |-> 3, B |-> 4]

InitQuery ==
    /\ up = <<None, Sc.R, Sc.A, Sc.R>>
    /\ name = <<<<"R">>, <<"A">>, <<"A", "1">>, <<"B">>>>
    /\ typ = <<1, 1, 1, 1>>
    /\ IdleIter
    /\ IdleHier
    /\ IdleMatch
    /\ IdleWalk

NextQuery == Build \/ Get

SpecQuery == InitQuery /\ [][NextQuery]_vars

(***************************************************************************)
(* Matching specification: get(mpath) on an index whose only key is mkey   *)
(***************************************************************************)
\* self.entries of a snapshot of one top-level object named key
OneKeyIndex(key) == (key :> <<1>>)

MatchResult(path, key) ==
    LET o == CHOOSE x \in GetOutcomes(OneKeyIndex(key), path) : TRUE
    IN  [tag      |-> o.tag,
         resolved |-> ResolvePath(Strip(path)),
         selected |-> o.result # <<>>]

InitMatch ==
    /\ up = <<>>
    /\ name = <<>>
    /\ typ = <<>>
    /\ IdleIter
    /\ IdleHier
    /\ \E pk \in MatchInputs :
          /\ mpath = pk[1]
          /\ mkey = pk[2]
    /\ mres = [tag |-> "none"]
    /\ IdleWalk

Match ==
    /\ mres.tag = "none"
    /\ mres' = MatchResult(mpath, mkey)
    /\ UNCHANGED <<up, name, typ, iter, args, yielded, stops, hier, built, query, mpath, mkey, active, call>>

NextMatch == Match

SpecMatch == InitMatch /\ [][NextMatch]_vars

(***************************************************************************)
(* End-to-end scenario claims (SpecQuery)                                  *)
(***************************************************************************)
ScenarioSnapshot == Built /\ built.rootobj = Sc.R /\ built.filtertype = NoFilter

ScenarioIndex ==
    (<<"R">> :> <<Sc.A, Sc.B>>) @@ (<<"R", "/", "A">> :> <<Sc.A1>>)

\* C6: the snapshot built from the explicit root R has exactly the two
\* entries "R" -> [A, B] and "R/A" -> [A1]; R itself is not indexed.
C6_ScenarioIndex ==
    ScenarioSnapshot =>
        /\ hier.entries = ScenarioIndex
        /\ \A sl \in Slots(hier.entries) : hier.entries[sl[1]][sl[2]] # Sc.R

C6_Witness ==
    /\ ScenarioSnapshot
    /\ hier.root = Sc.R
    /\ Cardinality(DOMAIN hier.entries) = 2
    /\ hier.maxlvl = 2

Answered(path) == ScenarioSnapshot /\ query # NoQuery /\ query.path = path

\* C7 as stated: on the scenario snapshot get("R/*") returns [A, B],
\* get("!^R/A.*$") returns [A1] and get("Z") returns [].
C7_ScenarioQueriesAsStated ==
    /\ Answered(<<"R", "/", "*">>) => (query.tag = "ok" /\ query.result = <<Sc.A, Sc.B>>)
    /\ Answered(<<"!", "^", "R", "/", "A", ".", "*", "$">>) =>
          (query.tag = "ok" /\ query.result = <<Sc.A1>>)
    /\ Answered(<<"Z">>) => (query.tag = "ok" /\ query.result = <<>>)

SelectedKeys == {k \in DOMAIN hier.entries : KeySelected(ResolvePath(Strip(query.path)), k)}

\* C7 amended: on the scenario snapshot get("R/*") returns [A1] (only the
\* key "R/A" matches; the key "R" has no slash), get("!^R/A.*$") returns
\* [A1] and get("Z") returns []; every list returned holds the nodes of
\* exactly the selected keys, each node list kept whole and in order.
C7_ScenarioQueries ==
    /\ Answered(<<"R", "/", "*">>) => (query.tag = "ok" /\ query.result = <<Sc.A1>>)
    /\ Answered(<<"!", "^", "R", "/", "A", ".", "*", "$">>) =>
          (query.tag = "ok" /\ query.result = <<Sc.A1>>)
    /\ Answered(<<"Z">>) => (query.tag = "ok" /\ query.result = <<>>)
    /\ (Built /\ query # NoQuery /\ query.tag = "ok") =>
          /\ Range(query.result) = UNION {Range(hier.entries[k]) : k \in SelectedKeys}
          /\ Len(query.result) =
                Cardinality({sl \in Slots(hier.entries) : sl[1] \in SelectedKeys})
          /\ \A k \in SelectedKeys :
                \E i \in 0..Len(query.result) :
                    SubSeq(query.result, i + 1, i + Len(hier.entries[k])) = hier.entries[k]

C7_Witness ==
    /\ Answered(<<"R", "/", "*">>)
    /\ query.result = <<Sc.A1>>

(***************************************************************************)
(* Matching claims (SpecMatch)                                             *)
(***************************************************************************)
Matched == mres.tag = "ok"

\* The pattern get compiles from the expression, before it is anchored.
BodyOf(path) == PatternBody(ResolvePath(Strip(path)))

\* The pattern matches the complete key string.
FullMatch(pat, key) == Len(key) \in ReEnds(pat, key)

\* C8: in either grammar, alternation included, a key is selected only if
\* the pattern matches the complete key string.
C8_SelectedOnlyOnFullMatch ==
    (Matched /\ mres.selected) => FullMatch(BodyOf(mpath), mkey)

\* Wildcard matching as C9 states it: '?' is one character, '*' is any
\* run of characters, every other character is itself.
RECURSIVE GlobMatch(_, _)
GlobMatch(p, k) ==
    IF p = <<>> THEN k = <<>>
    ELSE IF Head(p) = "*"
         THEN GlobMatch(Tail(p), k) \/ (k # <<>> /\ GlobMatch(p, Tail(k)))
    ELSE IF Head(p) = "?" THEN k # <<>> /\ GlobMatch(Tail(p), Tail(k))
    ELSE k # <<>> /\ Head(k) = Head(p) /\ GlobMatch(Tail(p), Tail(k))

WildcardCase ==
    /\ mres.tag # "none"
    /\ Strip(mpath) # <<>>
    /\ Strip(mpath)[1] # "!"
    /\ ~Contains(mpath, <<".", ".">>)

\* C9 as stated: for an expression not starting with '!' every character
\* other than '?' and '*' matches only itself.
C9_OtherCharactersLiteral ==
    WildcardCase => (Matched /\ (mres.selected <=> GlobMatch(Strip(mpath), mkey)))

RegexMeta == {".", "|", "^", "$", "+", "(", ")", "[", "]", "{", "}", "\\"}

\* C9 amended: for an expression not starting with '!' and a key without a
\* newline, '?' matches exactly one character, '*' matches zero or more
\* characters and every other character that is not a regular expression
\* metacharacter matches only itself; metacharacters keep their regular
\* expression meaning.
C9_WildcardTranslation ==
    /\ (WildcardCase /\ Range(mpath) \cap RegexMeta = {} /\ "\n" \notin Range(mkey)) =>
          (Matched /\ (mres.selected <=> GlobMatch(Strip(mpath), mkey)))
    /\ (mres.tag # "none" /\ mpath = <<"a", "/", "*">>) =>
          /\ mkey \in {<<"a", "/", "b">>, <<"a", "/", "b", "c">>, <<"a", "/">>} => mres.selected
          /\ mkey = <<"a", "x", "/", "b">> => ~mres.selected
    /\ (mres.tag # "none" /\ mpath = <<"a", "/", "?">>) =>
          /\ mkey = <<"a", "/", "b">> => mres.selected
          /\ mkey = <<"a", "/", "b", "c">> => ~mres.selected
    /\ (mres.tag # "none" /\ mpath = <<"a", ".", "b">> /\ mkey = <<"a", "x", "b">>) =>
          mres.selected

C9_Witness ==
    /\ Matched
    /\ mpath = <<"a", "/", "*">>
    /\ mkey = <<"a", "/", "b", "c">>
    /\ mres.selected

\* Parent-hop resolution as C10 states it: every '..' removes itself and one
\* preceding segment that is not '..'.
RECURSIVE PopLoop(_, _, _)
PopLoop(comps, pending, kept) ==
    IF comps = <<>> THEN kept
    ELSE IF Head(comps) = <<".", ".">> THEN PopLoop(Tail(comps), pending + 1, kept)
    ELSE IF pending > 0 THEN PopLoop(Tail(comps), pending - 1, kept)
    ELSE PopLoop(Tail(comps), 0, Append(kept, Head(comps)))

PopResolve(path) ==
    IF Contains(path, <<".", ".">>)
    THEN Join(Reverse(PopLoop(Reverse(Split(path, "/")), 0, <<>>)), <<"/">>)
    ELSE path

\* C10: get resolves the expression by removing every '..' segment together
\* with one preceding non-'..' segment per '..', consecutive '..' included.
C10_OnePopPerParentHop ==
    mres.tag # "none" => mres.resolved = PopResolve(Strip(mpath))

(***************************************************************************)
(* Error handling claims                                                   *)
(***************************************************************************)
\* C11: get raises no error for any string expression; expressions whose
\* '..' segments pop up to or past the first segment ("..", "a/..", "../a")
\* are resolved to a shorter path and evaluated.
C11_GetNeverRaises ==
    mres.tag # "none" => mres.tag = "ok"

\* C12: an iterator constructed with the null node as start yields no pair,
\* in either scoping mode.
C12_NullStartYieldsNothing ==
    (iter # NoIter /\ args.startobj = None) => yielded = <<>>

(***************************************************************************)
(* Behaviour claims of the traversal (SpecIter)                            *)
(***************************************************************************)
\* The number of ancestors of op up to the top of the document.
AncestorCount(op) == Cardinality(AncSelf(op)) - 1

\* C14: every pair (node, depth) yielded has depth = number of ancestors of
\* node + startlvl + 1; with startlvl -1 a parentless node has depth 0 and
\* a child is one deeper than its parent.
C14_DepthTracksAncestors ==
    \A i \in 1..Len(yielded) :
        LET op == yielded[i][1]
            d  == yielded[i][2]
        IN  op # None =>
                /\ d = AncestorCount(op) + args.startlvl + 1
                /\ (args.startlvl = -1 /\ GetUp(op) = None) => d = 0
                /\ \A j \in 1..Len(yielded) :
                      yielded[j][1] = GetUp(op) => d = yielded[j][2] + 1

C14_Witness ==
    /\ iter # NoIter
    /\ args.stopobj # NoStop
    /\ \E i \in 1..(Len(yielded) - 1) :
          /\ yielded[i][1] # None
          /\ AncestorCount(yielded[i][1]) = 2
          /\ AncestorCount(yielded[i + 1][1]) = 0
          /\ yielded[i + 1][2] = args.startlvl + 1

\* C15: once an advance has raised StopIteration, no later advance yields
\* another pair.
C15_ExhaustionIsPermanent ==
    [][stops >= 1 => yielded' = yielded]_vars

C15_Witness ==
    /\ stops >= 2
    /\ Len(yielded) >= 2
    /\ iter.curlvl < yielded[Len(yielded)][2]

\* C16: with an explicit stop node D below the start node, the exhausted
\* iterator has yielded every node of its scope that precedes D in
\* pre-order, the descendants of a node whose next sibling is D included.
C16_YieldsEverythingBeforeStop ==
    (iter # NoIter /\ args.startobj # None /\ args.stopobj.kind = "obj"
        /\ args.stopobj.obj \in ProperDescendants(args.startobj) /\ stops >= 1) =>
        LET scope == IF args.children_only THEN Tail(SubtreePre(args.startobj))
                     ELSE SubtreePre(args.startobj)
        IN  \A n \in Range(scope) :
                Pos(DocPre, n) < Pos(DocPre, args.stopobj.obj) => n \in Range(YieldedObjs)

(***************************************************************************)
(* Module-level traversal: getNextObject and the loops built on it         *)
(***************************************************************************)
\* objects.py 407-408: a single object becomes a one-element list; None and
\* a list are kept as they are.
NormalizeStopObjs(stopobjs) ==
    IF stopobjs.kind = "obj" THEN StopList(<<stopobjs.obj>>) ELSE stopobjs

\* objects.py 418-419: climb while there is no next sibling.
RECURSIVE ClimbFree(_)
ClimbFree(obj) ==
    IF GetNext(obj) = None /\ GetUp(obj) # None
    THEN ClimbFree(GetUp(obj))
    ELSE [obj |-> obj, stop |-> FALSE]

\* objects.py 421-427: climb while there is no next sibling and the parent
\* is not on the stop list.
RECURSIVE ClimbStops(_, _)
ClimbStops(obj, objs) ==
    IF GetNext(obj) = None /\ GetUp(obj) # None /\ ~InStop(GetUp(obj), objs)
    THEN IF InStop(obj, objs) \/ InStop(GetUp(obj), objs)
         THEN [obj |-> obj, stop |-> TRUE]
         ELSE ClimbStops(GetUp(obj), objs)
    ELSE [obj |-> obj, stop |-> FALSE]

Returns(obj) == [tag |-> "ok", obj |-> obj]

\* 'x in stopobjs' with stopobjs = None
TypeError == [tag |-> "TypeError", obj |-> None]

\* objects.py 400-431: getNextObject(obj, stopobjs); the object returned, or
\* the TypeError of a membership test against None.
getNextObject(obj0, stopobjs0) ==
    LET stopobjs == NormalizeStopObjs(stopobjs0)
        isnone   == stopobjs.kind = "none"
    IN  IF obj0 = None THEN Returns(None)
        ELSE IF GetDown(obj0) # None
        THEN IF isnone THEN TypeError
             ELSE IF InStop(GetNext(obj0), stopobjs.objs)
                     \/ InStop(GetDown(obj0), stopobjs.objs)
             THEN Returns(None)
             ELSE Returns(GetDown(obj0))
        ELSE IF isnone THEN TypeError
        ELSE IF InStop(obj0, stopobjs.objs) THEN Returns(None)
        ELSE LET c == IF isnone THEN ClimbFree(obj0) ELSE ClimbStops(obj0, stopobjs.objs)
             IN  IF c.stop THEN Returns(None)
                 ELSE IF GetNext(c.obj) # None /\ InStop(GetNext(c.obj), stopobjs.objs)
                 THEN Returns(None)
                 ELSE Returns(GetNext(c.obj))

\* The loop 'while obj: ...; obj = getNextObject(obj)' of getActiveObjects
\* and findObjects: the objects the loop body ran on, in order, and how the
\* loop ended.
RECURSIVE WalkLoop(_, _)
WalkLoop(obj, visited) ==
    IF obj = None THEN [tag |-> "ok", visited |-> visited]
    ELSE LET r == getNextObject(obj, NoStop) IN
         IF r.tag # "ok"
         THEN [tag |-> r.tag, visited |-> Append(visited, obj)]
         ELSE WalkLoop(r.obj, Append(visited, obj))

\* objects.py 434-444
getActiveObjects ==
    LET w == WalkLoop(GetFirstObject, <<>>)
        IsActive(obj) == obj \in active
    IN  [tag |-> w.tag, visited |-> w.visited,
         result |-> IF w.tag = "ok" THEN SelectSeq(w.visited, IsActive) ELSE <<>>]

\* objects.py 495-510, for a name that is a string
findObjects(n) ==
    LET w == WalkLoop(GetFirstObject, <<>>)
        IsNamed(obj) == GetName(obj) = n
    IN  [tag |-> w.tag, visited |-> w.visited,
         result |-> IF w.tag = "ok" THEN SelectSeq(w.visited, IsNamed) ELSE <<>>]

(***************************************************************************)
(* Walk specification: one call of a module-level traversal function       *)
(***************************************************************************)
InitWalk ==
    /\ \E n \in 0..MaxNodes :
          /\ up \in Forests(n)
          /\ name = DefaultNames(n)
          /\ typ = DefaultTypes(n)
    /\ active \in SUBSET Objs
    /\ call = NoCall
    /\ IdleIter
    /\ IdleHier
    /\ IdleMatch

\* getNextObject(obj, stopobjs)
CallGetNextObject ==
    /\ call = NoCall
    /\ \E obj \in Objs \cup {None}, stopobjs \in StopArgs :
          LET r == getNextObject(obj, stopobjs) IN
          call' = [fn |-> "getNextObject", obj |-> obj, stopobjs |-> stopobjs,
                   name |-> <<>>, tag |-> r.tag, ret |-> r.obj,
                   visited |-> <<>>, result |-> <<>>]
    /\ UNCHANGED <<up, name, typ, iter, args, yielded, stops, hier, built, query,
                   mpath, mkey, mres, active>>

\* getActiveObjects(doc)
CallGetActiveObjects ==
    /\ call = NoCall
    /\ LET r == getActiveObjects IN
          call' = [fn |-> "getActiveObjects", obj |-> None, stopobjs |-> NoStop,
                   name |-> <<>>, tag |-> r.tag, ret |-> None,
                   visited |-> r.visited, result |-> r.result]
    /\ UNCHANGED <<up, name, typ, iter, args, yielded, stops, hier, built, query,
                   mpath, mkey, mres, active>>

\* findObjects(name)
CallFindObjects ==
    /\ call = NoCall
    /\ \E n \in NameSet \cup {<<"a">>} :
          LET r == findObjects(n) IN
          call' = [fn |-> "findObjects", obj |-> None, stopobjs |-> NoStop,
                   name |-> n, tag |-> r.tag, ret |-> None,
                   visited |-> r.visited, result |-> r.result]
    /\ UNCHANGED <<up, name, typ, iter, args, yielded, stops, hier, built, query,
                   mpath, mkey, mres, active>>

NextWalk == CallGetNextObject \/ CallGetActiveObjects \/ CallFindObjects

SpecWalk == InitWalk /\ [][NextWalk]_vars

\* The object after obj in the pre-order of the whole document, None after
\* the last one.
PreOrderSuccessor(obj) ==
    IF Pos(DocPre, obj) < Len(DocPre) THEN DocPre[Pos(DocPre, obj) + 1] ELSE None

\* C13: getNextObject called without stop objects returns the pre-order
\* successor of the object, or None after the last one, and never raises;
\* the loops of findObjects and getActiveObjects therefore visit every
\* object of the document exactly once, in pre-order, and stop.
C13_WalkWithoutStopObjects ==
    /\ (call.fn = "getNextObject" /\ call.stopobjs = NoStop /\ call.obj # None) =>
          /\ call.tag = "ok"
          /\ call.ret = PreOrderSuccessor(call.obj)
    /\ call.fn \in {"getActiveObjects", "findObjects"} =>
          /\ call.tag = "ok"
          /\ call.visited = DocPre

====
